---- MODULE Spec2Model ----
(***************************************************************************)
(* Model of the cloud-etl-pipeline: the per-file runner process_file with  *)
(* its bounded retry loop, the pipeline runner run(), the __main__ wrapper *)
(* and the stage functions extract_csv, transform and load_df_to_postgres  *)
(* as far as their outcomes decide the control flow.                       *)
(***************************************************************************)
EXTENDS Integers, Sequences, FiniteSets, TLC

(***************************************************************************)
(* Bounds of the model.                                                    *)
(***************************************************************************)
MaxFiles == 2
MaxRetriesArg == 3
MaxRows == 2
MaxNameLen == 3
MaxStepRows == 3

(***************************************************************************)
(* Program constants.                                                      *)
(***************************************************************************)
DefaultMaxRetries == 3
ExitInterrupted == 130

(***************************************************************************)
(* File names.  A name is the sequence of its characters.                  *)
(***************************************************************************)
\* the characters used in file names, in code-point order
Alphabet == <<"-", ".", "a", "b", "c", "s", "t", "v", "x">>

Ord(c) == CHOOSE i \in 1..Len(Alphabet) : Alphabet[i] = c

CsvSuffix == <<".", "c", "s", "v">>

\* what the raw directory may hold
RawNames ==
  { <<"a", ".", "c", "s", "v">>,
    <<"a", "-", "b", ".", "c", "s", "v">>,
    <<"b", ".", "c", "s", "v">>,
    <<"a", ".", "t", "x", "t">> }

\* comparison of two paths of one directory: lexicographic by code point,
\* a proper prefix first
RECURSIVE LexLess(_, _)
LexLess(a, b) ==
  IF a = <<>> THEN b # <<>>
  ELSE IF b = <<>> THEN FALSE
  ELSE IF Head(a) # Head(b) THEN Ord(Head(a)) < Ord(Head(b))
  ELSE LexLess(Tail(a), Tail(b))

\* a name matches the pattern "*.csv"
MatchesCsv(name) ==
  /\ Len(name) >= Len(CsvSuffix)
  /\ SubSeq(name, Len(name) - Len(CsvSuffix) + 1, Len(name)) = CsvSuffix

Glob(entries) == { n \in entries : MatchesCsv(n) }

\* every order in which the directory scan may yield the members of a set
Orders(S) ==
  { s \in [1..Cardinality(S) -> S] :
      \A i, j \in 1..Cardinality(S) : i # j => s[i] # s[j] }

RECURSIVE InsertSorted(_, _)
InsertSorted(x, s) ==
  IF s = <<>> THEN <<x>>
  ELSE IF LexLess(x, Head(s)) THEN <<x>> \o s
  ELSE <<Head(s)>> \o InsertSorted(x, Tail(s))

RECURSIVE SortAscending(_)
SortAscending(s) ==
  IF s = <<>> THEN <<>> ELSE InsertSorted(Head(s), SortAscending(Tail(s)))

\* mutant: the scan order is used as it comes
SortedOmitted(s) == s

\* sorted(RAW_DIR.glob("*.csv")) applied to one scan order
Sorted(s) == SortAscending(s)

(***************************************************************************)
(* Tables.  A cell is 0 (null), 1 or 2 (numbers), 11 or 12 (the strings    *)
(* "1", "2"), 20 (a string that is no number), or the code of a mean that  *)
(* is no integer.  A row is a tuple of cells, one per column.              *)
(***************************************************************************)
IsNull(c) == c = 0
IsStr(c) == c \in {11, 12, 20}

NoTable == [frame |-> FALSE, columns |-> <<>>, rows |-> <<>>]

Table(cols, rows) == [frame |-> TRUE, columns |-> cols, rows |-> rows]

NRows(df) == Len(df.rows)

\* DataFrame.empty: an axis of length 0
IsEmpty(df) == Len(df.rows) = 0 \/ Len(df.columns) = 0

RECURSIVE SeqsUpTo(_, _)
SeqsUpTo(S, n) ==
  IF n = 0 THEN {<<>>}
  ELSE LET shorter == SeqsUpTo(S, n - 1)
       IN shorter \cup { Append(s, x) : s \in { t \in shorter : Len(t) = n - 1 }, x \in S }

(***************************************************************************)
(* transform_data.py: the four cleaning steps and transform.               *)
(***************************************************************************)
\* characters of column names; "TAB" is a whitespace character other than
\* the space, "A" an upper-case letter, "!" a punctuation character, and
\* "U2102" an upper-case letter that has no lower-case form (U+2102, the
\* double-struck capital C, is one of them)
NameChars == {"A", "a", "1", " ", "TAB", "-", "_", "!", "U2102"}

\* str.lower, str.isupper, str.isalnum
Lower(c) == IF c = "A" THEN "a" ELSE c
IsUpper(c) == c \in {"A", "U2102"}
Whitespace == {" ", "TAB"}
IsAlnum(c) == c \in {"A", "a", "1", "U2102"}

RECURSIVE StripLeft(_, _)
StripLeft(s, drop) ==
  IF s # <<>> /\ Head(s) \in drop THEN StripLeft(Tail(s), drop) ELSE s

RECURSIVE StripRight(_, _)
StripRight(s, drop) ==
  IF s # <<>> /\ s[Len(s)] \in drop
  THEN StripRight(SubSeq(s, 1, Len(s) - 1), drop) ELSE s

Strip(s, drop) == StripRight(StripLeft(s, drop), drop)

\* mutant: the hyphen is not replaced
ReplaceSpaceOnly(c) == IF c = " " THEN "_" ELSE c

\* str.replace(' ', '_').replace('-', '_'), by character
ReplaceSpaceDash(c) == IF c \in {" ", "-"} THEN "_" ELSE c
KeepAlnumUnderscore(c) == IsAlnum(c) \/ c = "_"

\* mutant: the underscores are stripped before the other characters are dropped
NormalizeNameStripFirst(col) ==
  LET stripped == Strip(col, Whitespace)
      lowered == [i \in 1..Len(stripped) |-> Lower(stripped[i])]
      replaced == [i \in 1..Len(lowered) |-> ReplaceSpaceDash(lowered[i])]
  IN SelectSeq(Strip(replaced, {"_"}), KeepAlnumUnderscore)

\* one column name through lines 50-53
NormalizeName(col) ==
  LET stripped == Strip(col, Whitespace)
      lowered == [i \in 1..Len(stripped) |-> Lower(stripped[i])]
      replaced == [i \in 1..Len(lowered) |-> ReplaceSpaceDash(lowered[i])]
      kept == SelectSeq(replaced, KeepAlnumUnderscore)
  IN Strip(kept, {"_"})

normalize_columns(df) ==
  [df EXCEPT !.columns = [i \in 1..Len(df.columns) |-> NormalizeName(df.columns[i])]]

AllNull(row) == \A i \in 1..Len(row) : IsNull(row[i])
AnyNull(row) == \E i \in 1..Len(row) : IsNull(row[i])
NotAllNull(row) == ~AllNull(row)
NoNull(row) == ~AnyNull(row)

Column(df, j) == [i \in 1..Len(df.rows) |-> df.rows[i][j]]

\* a column of numeric dtype: it holds no string
IsNumericColumn(df, j) == \A i \in 1..Len(df.rows) : ~IsStr(df.rows[i][j])

RECURSIVE SumSeq(_)
SumSeq(s) == IF s = <<>> THEN 0 ELSE Head(s) + SumSeq(Tail(s))

IsPresent(c) == ~IsNull(c)

\* the mean of the non-null cells of a numeric column; 0 (null) when there
\* are none; a mean that is no integer gets the code 100 + 10 * sum + count
ColumnMean(df, j) ==
  LET present == SelectSeq(Column(df, j), IsPresent)
      total == SumSeq(present)
      count == Len(present)
  IN IF count = 0 THEN 0
     ELSE IF total % count = 0 THEN total \div count
     ELSE 100 + 10 * total + count

FillMean(df) ==
  [df EXCEPT !.rows =
     [i \in 1..Len(df.rows) |->
        [j \in 1..Len(df.rows[i]) |->
           IF IsNull(df.rows[i][j]) /\ IsNumericColumn(df, j)
           THEN ColumnMean(df, j) ELSE df.rows[i][j]]]]

\* mutant: drop_all drops as drop_any does
handle_missing_valuesDropAny(df, strategy) ==
  IF strategy \in {"drop_all", "drop_any"}
  THEN [df EXCEPT !.rows = SelectSeq(df.rows, NoNull)]
  ELSE IF strategy = "fill_mean" THEN FillMean(df)
  ELSE df

\* the table of the pair (df, removed) that handle_missing_values returns
handle_missing_values(df, strategy) ==
  IF strategy = "drop_all" THEN [df EXCEPT !.rows = SelectSeq(df.rows, NotAllNull)]
  ELSE IF strategy = "drop_any" THEN [df EXCEPT !.rows = SelectSeq(df.rows, NoNull)]
  ELSE IF strategy = "fill_mean" THEN FillMean(df)
  ELSE df

\* mutant: the last of equal rows is kept
RECURSIVE KeepLast(_, _)
KeepLast(rows, seen) ==
  IF rows = <<>> THEN <<>>
  ELSE IF \E i \in 2..Len(rows) : rows[i] = Head(rows) THEN KeepLast(Tail(rows), seen)
  ELSE <<Head(rows)>> \o KeepLast(Tail(rows), seen)

\* drop_duplicates(keep='first'): seen holds the rows met so far
RECURSIVE KeepFirst(_, _)
KeepFirst(rows, seen) ==
  IF rows = <<>> THEN <<>>
  ELSE IF Head(rows) \in seen THEN KeepFirst(Tail(rows), seen)
  ELSE <<Head(rows)>> \o KeepFirst(Tail(rows), seen \cup {Head(rows)})

\* the table of the pair (df, removed) that remove_duplicates returns
remove_duplicates(df) == [df EXCEPT !.rows = KeepFirst(df.rows, {})]

\* a column of object dtype: it holds a string
IsObjectColumn(df, j) == \E i \in 1..Len(df.rows) : IsStr(df.rows[i][j])

\* pd.to_numeric succeeds on a column when every cell is null, a number or
\* the string of a number
Parses(df, j) == \A i \in 1..Len(df.rows) : df.rows[i][j] # 20

ToNumeric(c) == IF c \in {11, 12} THEN c - 10 ELSE c

Converted(df) ==
  { j \in 1..Len(df.columns) : IsObjectColumn(df, j) /\ Parses(df, j) }

\* the table of the pair (df, conversions) that convert_dtypes returns
convert_dtypes(df) ==
  [df EXCEPT !.rows =
     [i \in 1..Len(df.rows) |->
        [j \in 1..Len(df.rows[i]) |->
           IF j \in Converted(df) THEN ToNumeric(df.rows[i][j]) ELSE df.rows[i][j]]]]

\* mutant: duplicates are removed before missing values are handled
EnabledStepsDuplicatesFirst(normalize_cols, remove_dups, handle_missing, convert_types) ==
  (IF normalize_cols THEN <<"normalize_columns">> ELSE <<>>)
  \o (IF remove_dups THEN <<"remove_duplicates">> ELSE <<>>)
  \o (IF handle_missing # "" THEN <<"handle_missing_values">> ELSE <<>>)
  \o (IF convert_types THEN <<"convert_dtypes">> ELSE <<>>)

\* the steps that the options of transform enable, in the order of lines 143-156
EnabledSteps(normalize_cols, remove_dups, handle_missing, convert_types) ==
  (IF normalize_cols THEN <<"normalize_columns">> ELSE <<>>)
  \o (IF handle_missing # "" THEN <<"handle_missing_values">> ELSE <<>>)
  \o (IF remove_dups THEN <<"remove_duplicates">> ELSE <<>>)
  \o (IF convert_types THEN <<"convert_dtypes">> ELSE <<>>)

ApplyStep(step, df, handle_missing) ==
  IF step = "normalize_columns" THEN normalize_columns(df)
  ELSE IF step = "handle_missing_values" THEN handle_missing_values(df, handle_missing)
  ELSE IF step = "remove_duplicates" THEN remove_duplicates(df)
  ELSE convert_dtypes(df)

\* the steps in turn; fault names the step in which an unexpected exception
\* is raised ("none": in no step, "report": after the last step), which the
\* step's except clause or lines 169-172 turn into a TransformError
RECURSIVE RunSteps(_, _, _, _, _)
RunSteps(steps, df, handle_missing, fault, done) ==
  IF steps = <<>>
  THEN IF fault = "report"
       THEN [exc |-> "TransformError", df |-> NoTable, steps |-> done]
       ELSE [exc |-> "none", df |-> df, steps |-> done]
  ELSE IF Head(steps) = fault
  THEN [exc |-> "TransformError", df |-> NoTable, steps |-> done]
  ELSE RunSteps(Tail(steps), ApplyStep(Head(steps), df, handle_missing),
                handle_missing, fault, Append(done, Head(steps)))

TransformFaults ==
  {"none", "normalize_columns", "handle_missing_values", "remove_duplicates",
   "convert_dtypes", "report"}

\* mutant: the type of the input is not checked
transformUnchecked(df, normalize_cols, remove_dups, handle_missing, convert_types, fault) ==
  RunSteps(EnabledSteps(normalize_cols, remove_dups, handle_missing, convert_types),
           df, handle_missing, fault, <<>>)

\* transform: the exception it raises ("none" when it returns), the table it
\* returns and the steps it completed
transform(df, normalize_cols, remove_dups, handle_missing, convert_types, fault) ==
  IF ~df.frame
  THEN [exc |-> "TransformError", df |-> NoTable, steps |-> <<>>]
  ELSE RunSteps(EnabledSteps(normalize_cols, remove_dups, handle_missing, convert_types),
                df, handle_missing, fault, <<>>)

(***************************************************************************)
(* extract_data.py: validate_file and extract_csv.  The condition of the   *)
(* path at the time of the call decides the outcome.                       *)
(***************************************************************************)
ExtractConds ==
  {"ok", "not_found", "not_a_file", "zero_bytes", "decode_error", "parse_error",
   "other_error"}

validate_file(cond) ==
  IF cond \in {"not_found", "not_a_file", "zero_bytes"} THEN "ExtractionError" ELSE "none"

\* what pd.read_csv raises
ReadCsvRaises(cond) ==
  IF cond = "decode_error" THEN "UnicodeDecodeError"
  ELSE IF cond = "parse_error" THEN "ParserError"
  ELSE IF cond = "other_error" THEN "OSError"
  ELSE "none"

\* the except clauses of extract_csv, lines 152-165
ExtractExcept(raised) == IF raised = "none" THEN "none" ELSE "ExtractionError"

extract_csv(cond, table) ==
  LET raised == IF validate_file(cond) # "none" THEN validate_file(cond)
                ELSE ReadCsvRaises(cond)
  IN IF raised = "none" THEN [exc |-> "none", df |-> table]
     ELSE [exc |-> ExtractExcept(raised), df |-> NoTable]

(***************************************************************************)
(* load_to_db.py: load_df_to_postgres.                                     *)
(***************************************************************************)
LoadConds ==
  {"ok", "engine_error", "connect_error", "write_db_error", "write_other_error"}

IfExistsPolicies == {"fail", "replace", "append"}

\* DatabaseManager.connect: the exception it raises and whether the engine
\* was created
connect(cond) ==
  IF cond = "engine_error" THEN [exc |-> "ImportError", engine |-> FALSE]
  ELSE IF cond = "connect_error" THEN [exc |-> "LoadError", engine |-> TRUE]
  ELSE [exc |-> "none", engine |-> TRUE]

\* what df.to_sql raises
ToSqlRaises(cond) ==
  IF cond = "write_db_error" THEN "SQLAlchemyError"
  ELSE IF cond = "write_other_error" THEN "ValueError"
  ELSE "none"

\* mutant: the engine is disposed only after a write that succeeded
load_df_to_postgresNoFinally(df, table_name_ok, if_exists, port_ok, cond) ==
  LET quiet == [exc |-> "none", loaded |-> 0, engine |-> FALSE, disposed |-> FALSE,
                wrote |-> FALSE]
  IN IF ~df.frame \/ ~table_name_ok \/ if_exists \notin IfExistsPolicies
     THEN [quiet EXCEPT !.exc = "LoadError"]
     ELSE IF IsEmpty(df) THEN quiet
     ELSE IF ~port_ok THEN [quiet EXCEPT !.exc = "ValueError"]
     ELSE LET c == connect(cond)
          IN IF c.exc # "none"
             THEN [quiet EXCEPT !.exc = "LoadError", !.engine = c.engine]
             ELSE IF ToSqlRaises(cond) # "none"
             THEN [quiet EXCEPT !.exc = "LoadError", !.engine = TRUE]
             ELSE [quiet EXCEPT !.loaded = NRows(df), !.engine = TRUE,
                                !.disposed = TRUE, !.wrote = TRUE]

\* mutant: the table is tested for rows only after the connection is made
load_df_to_postgresConnectFirst(df, table_name_ok, if_exists, port_ok, cond) ==
  LET quiet == [exc |-> "none", loaded |-> 0, engine |-> FALSE, disposed |-> FALSE,
                wrote |-> FALSE]
  IN IF ~df.frame \/ ~table_name_ok \/ if_exists \notin IfExistsPolicies
     THEN [quiet EXCEPT !.exc = "LoadError"]
     ELSE IF ~port_ok THEN [quiet EXCEPT !.exc = "ValueError"]
     ELSE LET c == connect(cond)
          IN IF c.exc # "none"
             THEN [quiet EXCEPT !.exc = "LoadError", !.engine = c.engine,
                                !.disposed = c.engine]
             ELSE IF IsEmpty(df) THEN [quiet EXCEPT !.engine = TRUE, !.disposed = TRUE]
             ELSE IF ToSqlRaises(cond) # "none"
             THEN [quiet EXCEPT !.exc = "LoadError", !.engine = TRUE, !.disposed = TRUE]
             ELSE [quiet EXCEPT !.loaded = NRows(df), !.engine = TRUE,
                                !.disposed = TRUE, !.wrote = TRUE]

\* load_df_to_postgres: the exception it raises ("none" when it returns), the
\* row count it returns, whether an engine was created and whether it was
\* disposed, and whether rows were written
load_df_to_postgres(df, table_name_ok, if_exists, port_ok, cond) ==
  LET quiet == [exc |-> "none", loaded |-> 0, engine |-> FALSE, disposed |-> FALSE,
                wrote |-> FALSE]
  IN IF ~df.frame \/ ~table_name_ok \/ if_exists \notin IfExistsPolicies
     THEN [quiet EXCEPT !.exc = "LoadError"]
     ELSE IF IsEmpty(df) THEN quiet
     ELSE IF ~port_ok THEN [quiet EXCEPT !.exc = "ValueError"]
     ELSE LET c == connect(cond)
          IN IF c.exc # "none"
             THEN [quiet EXCEPT !.exc = "LoadError", !.engine = c.engine,
                                !.disposed = c.engine]
             ELSE IF ToSqlRaises(cond) # "none"
             THEN [quiet EXCEPT !.exc = "LoadError", !.engine = TRUE, !.disposed = TRUE]
             ELSE [quiet EXCEPT !.loaded = NRows(df), !.engine = TRUE,
                                !.disposed = TRUE, !.wrote = TRUE]

(***************************************************************************)
(* pipeline.py: the state of one execution.                                *)
(***************************************************************************)
VARIABLES
  entry,            \* "run": the module run as __main__; "process_file": one direct call
  pc,               \* the position of the execution
  raw_exists,       \* RAW_DIR.exists()
  raw_entries,      \* the names in RAW_DIR
  processed_dir,    \* PROCESSED_DIR: "absent", "present", or "blocked" (cannot be made)
  postgres_host,    \* os.getenv("POSTGRES_HOST") is set
  postgres_port_ok, \* os.getenv("POSTGRES_PORT", "5432") is the text of an integer
  csv_files,        \* run: the sorted list of discovered files
  idx,              \* run: how many of csv_files the loop has taken
  csv_file,         \* process_file: its argument
  max_retries,      \* process_file: its argument
  attempt,          \* process_file: the loop variable
  stats,            \* the PipelineStats object
  df,               \* process_file: the extracted table
  df_transformed,   \* process_file: the transformed table
  processed_files,  \* the names written under PROCESSED_DIR
  status,           \* per file: the state of its runner
  records,          \* the attempts of the current call of process_file
  stats0,           \* stats as they were when the current call began
  ret,              \* what the current call of process_file returned
  calls,            \* how often process_file has been called
  verdict,          \* what run() returned
  reports,          \* how often log_stats has run
  exit_code,        \* what sys.exit was given
  store_calls,      \* how often load_df_to_postgres has been called
  arg,              \* a direct call of a stage function: its arguments
  result            \* a direct call of a stage function: what it gave

vars ==
  <<entry, pc, raw_exists, raw_entries, processed_dir, postgres_host, postgres_port_ok,
    csv_files, idx, csv_file, max_retries, attempt, stats, df, df_transformed,
    processed_files, status, records, stats0, ret, calls, verdict, reports, exit_code,
    store_calls, arg, result>>

env ==
  <<entry, raw_exists, raw_entries, processed_dir, postgres_host, postgres_port_ok,
    arg, result>>

NoCall == [fn |-> "none"]

\* PipelineStats.__init__
NewStats ==
  [files_processed |-> 0, files_failed |-> 0, rows_extracted |-> 0,
   rows_transformed |-> 0, rows_loaded |-> 0, errors |-> <<>>]

NoFile == <<>>

FileColumns == << <<"A", " ", "a">>, <<"a", "-", "1">> >>

\* what pd.read_csv may return for a file: a header alone, or three rows of
\* which one is all null and two are equal
FileTables ==
  { Table(FileColumns, <<>>),
    Table(FileColumns, << <<0, 0>>, <<1, 0>>, <<1, 0>> >>) }

Directories == { S \in SUBSET RawNames : Cardinality(S) <= MaxFiles }

Terminal == {"Succeeded", "Failed"}

Init ==
  /\ entry \in {"run", "process_file"}
  /\ postgres_host \in BOOLEAN
  /\ postgres_port_ok \in (IF postgres_host THEN BOOLEAN ELSE {TRUE})
  /\ raw_exists \in (IF entry = "run" THEN BOOLEAN ELSE {TRUE})
  /\ raw_entries \in (IF ~raw_exists THEN {{}}
                      ELSE IF entry = "run" THEN Directories ELSE {Glob(RawNames)})
  /\ processed_dir \in {"absent", "present", "blocked"}
  /\ pc = IF entry = "run" THEN "mkdir" ELSE "for"
  /\ csv_files = <<>>
  /\ idx = 0
  /\ csv_file \in (IF entry = "run" THEN {NoFile} ELSE Glob(RawNames))
  /\ max_retries \in (IF entry = "run" THEN {DefaultMaxRetries} ELSE 0..MaxRetriesArg)
  /\ attempt = 0
  /\ stats = NewStats
  /\ df = NoTable
  /\ df_transformed = NoTable
  /\ processed_files = {}
  /\ status = [n \in RawNames |-> "Pending"]
  /\ records = <<>>
  /\ stats0 = NewStats
  /\ ret = "none"
  /\ calls = IF entry = "run" THEN 0 ELSE 1
  /\ verdict = "none"
  /\ reports = 0
  /\ exit_code = -1
  /\ store_calls = 0
  /\ arg = NoCall
  /\ result = NoCall

(***************************************************************************)
(* process_file                                                            *)
(***************************************************************************)
Retryable == {"ExtractionError", "TransformError", "LoadError"}

\* mutant: the last attempt is retried as well
HandlerOffByOne(exc, att, max) ==
  IF exc \in Retryable
  THEN IF att <= max THEN "retry" ELSE "fail"
  ELSE "fatal"

\* mutant: every exception is retried
HandlerRetryAll(exc, att, max) == IF att < max THEN "retry" ELSE "fail"

\* which except clause of lines 111-127 takes an exception, and what it does
Handler(exc, att, max) ==
  IF exc \in Retryable
  THEN IF att < max THEN "retry" ELSE "fail"
  ELSE "fatal"

Record(stage, outcome, exc) == [stage |-> stage, outcome |-> outcome, exc |-> exc]

\* mutant: a retry resumes at the stage that failed
RaiseResumeStage(exc, stage) ==
  LET h == Handler(exc, attempt, max_retries)
  IN /\ df' = df
     /\ df_transformed' = df_transformed
     /\ IF h = "retry"
        THEN /\ records' = Append(records, Record(stage, "retryable", exc))
             /\ pc' = stage
             /\ UNCHANGED <<ret, status>>
        ELSE /\ records' = Append(records,
                             Record(stage, IF h = "fatal" THEN "fatal" ELSE "retryable", exc))
             /\ pc' = "pf_returned"
             /\ ret' = "False"
             /\ status' = [status EXCEPT ![csv_file] = "Failed"]

\* lines 111-127: an exception of the try block reaches the except clauses
Raise(exc, stage) ==
  LET h == Handler(exc, attempt, max_retries)
  IN /\ df' = NoTable
     /\ df_transformed' = NoTable
     /\ IF h = "retry"
        THEN /\ records' = Append(records, Record(stage, "retryable", exc))
             /\ pc' = "for"
             /\ UNCHANGED <<ret, status>>
        ELSE /\ records' = Append(records,
                             Record(stage, IF h = "fatal" THEN "fatal" ELSE "retryable", exc))
             /\ pc' = "pf_returned"
             /\ ret' = "False"
             /\ status' = [status EXCEPT ![csv_file] = "Failed"]

\* mutant: every failed attempt is counted as a failed file
RaiseStatsEveryAttempt(exc, st) ==
  [st EXCEPT !.errors = Append(@, [file |-> csv_file,
                                    unexpected |-> exc \notin Retryable]),
             !.files_failed = @ + 1]

\* mutant: a failed file is counted but gets no error summary
RaiseStatsNoSummary(exc, st) ==
  IF Handler(exc, attempt, max_retries) = "retry" THEN st
  ELSE [st EXCEPT !.files_failed = @ + 1]

\* the statistics after Raise
RaiseStats(exc, st) ==
  IF Handler(exc, attempt, max_retries) = "retry" THEN st
  ELSE [st EXCEPT !.errors = Append(@, [file |-> csv_file,
                                         unexpected |-> exc \notin Retryable]),
                  !.files_failed = @ + 1]

\* line 78: the next iteration of the for loop, or line 129 when the range is
\* exhausted
ForAttempt ==
  /\ pc = "for"
  /\ IF attempt < max_retries
     THEN /\ attempt' = attempt + 1
          /\ pc' = "extract"
          /\ status' = [status EXCEPT ![csv_file] = "Extracting"]
          /\ UNCHANGED ret
     ELSE /\ pc' = "pf_returned"
          /\ ret' = "False"
          /\ UNCHANGED <<attempt, status>>
  /\ UNCHANGED <<env, store_calls, csv_files, idx, csv_file, max_retries, stats, df, df_transformed,
                 processed_files,
                 records, stats0, calls, verdict, reports, exit_code>>

\* lines 81-83
Extract ==
  /\ pc = "extract"
  /\ \E cond \in ExtractConds, table \in FileTables :
       LET r == extract_csv(cond, table)
       IN IF r.exc = "none"
          THEN /\ df' = r.df
               /\ stats' = [stats EXCEPT !.rows_extracted = @ + NRows(r.df)]
               /\ pc' = "transform"
               /\ status' = [status EXCEPT ![csv_file] = "Transforming"]
               /\ UNCHANGED <<records, ret, df_transformed>>
          ELSE /\ Raise(r.exc, "extract")
               /\ stats' = RaiseStats(r.exc, stats)
  /\ UNCHANGED <<env, store_calls, csv_files, idx, csv_file, max_retries, attempt,
                 processed_files, stats0, calls, verdict, reports, exit_code>>

\* lines 86-88
Transform ==
  /\ pc = "transform"
  /\ \E fault \in TransformFaults :
       LET r == transform(df, TRUE, TRUE, "drop_all", TRUE, fault)
       IN IF r.exc = "none"
          THEN /\ df_transformed' = r.df
               /\ stats' = [stats EXCEPT !.rows_transformed = @ + NRows(r.df)]
               /\ pc' = "save"
               /\ status' = [status EXCEPT ![csv_file] = "Saving"]
               /\ UNCHANGED <<records, ret, df>>
          ELSE /\ Raise(r.exc, "transform")
               /\ stats' = RaiseStats(r.exc, stats)
  /\ UNCHANGED <<env, store_calls, csv_files, idx, csv_file, max_retries, attempt,
                 processed_files, stats0, calls, verdict, reports, exit_code>>

\* what df_transformed.to_csv(out_file) raises
ToCsvRaises(dir, writable) ==
  IF dir = "present" /\ writable THEN "none" ELSE "OSError"

\* mutant: the transformed table is not written
SaveOmitted ==
  /\ pc = "save"
  /\ pc' = "load"
  /\ status' = [status EXCEPT ![csv_file] = "Loading"]
  /\ UNCHANGED <<records, ret, stats, df, df_transformed, processed_files>>
  /\ UNCHANGED <<env, store_calls, csv_files, idx, csv_file, max_retries, attempt,
                 stats0, calls, verdict, reports, exit_code>>

\* lines 91-94
Save ==
  /\ pc = "save"
  /\ \E writable \in BOOLEAN :
       LET exc == ToCsvRaises(processed_dir, writable)
       IN IF exc = "none"
          THEN /\ processed_files' = processed_files \cup {csv_file}
               /\ pc' = "load"
               /\ status' = [status EXCEPT ![csv_file] = "Loading"]
               /\ UNCHANGED <<records, ret, stats, df, df_transformed>>
          ELSE /\ Raise(exc, "save")
               /\ stats' = RaiseStats(exc, stats)
               /\ UNCHANGED processed_files
  /\ UNCHANGED <<env, store_calls, csv_files, idx, csv_file, max_retries, attempt,
                 stats0, calls, verdict, reports, exit_code>>

\* lines 107-109
Succeed(st, exc) ==
  /\ stats' = [st EXCEPT !.files_processed = @ + 1]
  /\ records' = Append(records, Record("load", "success", exc))
  /\ ret' = "True"
  /\ pc' = "pf_returned"
  /\ status' = [status EXCEPT ![csv_file] = "Succeeded"]
  /\ df' = NoTable
  /\ df_transformed' = NoTable

\* mutant: the store writer is called whether or not a host is configured
LoadHostIgnored ==
  /\ pc = "load"
  /\ \E cond \in LoadConds :
       LET r == load_df_to_postgres(df_transformed, TRUE, "append",
                                    postgres_port_ok, cond)
       IN /\ store_calls' = store_calls + 1
          /\ IF r.exc = "none"
             THEN Succeed([stats EXCEPT !.rows_loaded = @ + r.loaded], "none")
             ELSE IF r.exc = "LoadError"
             THEN Succeed(stats, r.exc)
             ELSE /\ Raise(r.exc, "load")
                  /\ stats' = RaiseStats(r.exc, stats)
  /\ UNCHANGED <<env, csv_files, idx, csv_file, max_retries, attempt,
                 processed_files, stats0, calls, verdict, reports, exit_code>>

\* lines 96-109
Load ==
  /\ pc = "load"
  /\ IF postgres_host
     THEN \E cond \in LoadConds :
            LET r == load_df_to_postgres(df_transformed, TRUE, "append",
                                         postgres_port_ok, cond)
            IN /\ store_calls' = store_calls + 1
               /\ IF r.exc = "none"
                  THEN Succeed([stats EXCEPT !.rows_loaded = @ + r.loaded], "none")
                  ELSE IF r.exc = "LoadError"
                  THEN Succeed(stats, r.exc)
                  ELSE /\ Raise(r.exc, "load")
                       /\ stats' = RaiseStats(r.exc, stats)
     ELSE Succeed(stats, "none") /\ UNCHANGED store_calls
  /\ UNCHANGED <<env, csv_files, idx, csv_file, max_retries, attempt,
                 processed_files, stats0, calls, verdict, reports, exit_code>>

(***************************************************************************)
(* run                                                                     *)
(***************************************************************************)
\* mutant: PROCESSED_DIR is made only once RAW_DIR has been found
MkdirDeferred ==
  /\ pc = "mkdir"
  /\ IF ~raw_exists
     THEN pc' = "check_raw" /\ UNCHANGED processed_dir
     ELSE IF processed_dir = "blocked"
     THEN pc' = "crashed" /\ UNCHANGED processed_dir
     ELSE pc' = "check_raw" /\ processed_dir' = "present"
  /\ UNCHANGED <<entry, raw_exists, raw_entries, postgres_host, postgres_port_ok,
                 csv_files, idx, csv_file, max_retries, attempt, stats, df,
                 df_transformed, processed_files, status, records, stats0, ret, calls,
                 verdict, reports, exit_code, store_calls, arg, result>>

\* line 141
Mkdir ==
  /\ pc = "mkdir"
  /\ IF processed_dir = "blocked"
     THEN pc' = "crashed" /\ UNCHANGED processed_dir
     ELSE pc' = "check_raw" /\ processed_dir' = "present"
  /\ UNCHANGED <<entry, raw_exists, raw_entries, postgres_host, postgres_port_ok,
                 csv_files, idx, csv_file, max_retries, attempt, stats, df,
                 df_transformed, processed_files, status, records, stats0, ret, calls,
                 verdict, reports, exit_code, store_calls, arg, result>>

\* mutant: the raw directory is not looked at
CheckRawSkipped ==
  /\ pc = "check_raw"
  /\ pc' = "glob"
  /\ UNCHANGED <<env, store_calls, csv_files, idx, csv_file, max_retries, attempt, stats, df,
                 df_transformed, processed_files, status, records, stats0, ret, calls,
                 verdict, reports, exit_code>>

\* lines 142-144
CheckRaw ==
  /\ pc = "check_raw"
  /\ IF raw_exists
     THEN pc' = "glob" /\ UNCHANGED verdict
     ELSE pc' = "returned" /\ verdict' = "False"
  /\ UNCHANGED <<env, store_calls, csv_files, idx, csv_file, max_retries, attempt, stats, df,
                 df_transformed, processed_files, status, records, stats0, ret, calls,
                 reports, exit_code>>

\* lines 147-154
Discover ==
  /\ pc = "glob"
  /\ \E order \in Orders(Glob(raw_entries)) : csv_files' = Sorted(order)
  /\ IF csv_files' = <<>>
     THEN pc' = "returned" /\ verdict' = "True"
     ELSE pc' = "loop" /\ UNCHANGED verdict
  /\ UNCHANGED <<env, store_calls, idx, csv_file, max_retries, attempt, stats, df, df_transformed,
                 processed_files, status, records, stats0, ret, calls, reports,
                 exit_code>>

\* lines 157-158: the loop takes the next file and calls process_file
CallProcessFile ==
  /\ pc = "loop"
  /\ idx < Len(csv_files)
  /\ idx' = idx + 1
  /\ csv_file' = csv_files[idx + 1]
  /\ max_retries' = DefaultMaxRetries
  /\ attempt' = 0
  /\ records' = <<>>
  /\ stats0' = stats
  /\ ret' = "none"
  /\ calls' = calls + 1
  /\ pc' = "for"
  /\ UNCHANGED <<env, store_calls, csv_files, stats, df, df_transformed, processed_files, status,
                 verdict, reports, exit_code>>

\* mutant: the loop ends at the first file that failed
ReturnToLoopAbort ==
  /\ pc = "pf_returned"
  /\ entry = "run"
  /\ pc' = IF ret = "False" THEN "finish" ELSE "loop"
  /\ records' = <<>>
  /\ stats0' = stats
  /\ ret' = "none"
  /\ UNCHANGED <<env, store_calls, csv_files, idx, csv_file, max_retries, attempt, stats, df,
                 df_transformed, processed_files, status, calls, verdict, reports,
                 exit_code>>

\* line 158: process_file returns into the loop, which drops its result
ReturnToLoop ==
  /\ pc = "pf_returned"
  /\ entry = "run"
  /\ pc' = "loop"
  /\ records' = <<>>
  /\ stats0' = stats
  /\ ret' = "none"
  /\ UNCHANGED <<env, store_calls, csv_files, idx, csv_file, max_retries, attempt, stats, df,
                 df_transformed, processed_files, status, calls, verdict, reports,
                 exit_code>>

\* mutant: the statistics are not logged
LogStatsOmitted ==
  /\ pc = "loop"
  /\ idx = Len(csv_files)
  /\ pc' = "finish"
  /\ UNCHANGED <<env, store_calls, csv_files, idx, csv_file, max_retries, attempt, stats, df,
                 df_transformed, processed_files, status, records, stats0, ret, calls,
                 verdict, reports, exit_code>>

\* line 161, PipelineStats.log_stats
LogStats ==
  /\ pc = "loop"
  /\ idx = Len(csv_files)
  /\ reports' = reports + 1
  /\ pc' = "finish"
  /\ UNCHANGED <<env, store_calls, csv_files, idx, csv_file, max_retries, attempt, stats, df,
                 df_transformed, processed_files, status, records, stats0, ret, calls,
                 verdict, exit_code>>

\* mutant: success is that a file was processed
VerdictProcessed(st) == IF st.files_processed > 0 THEN "True" ELSE "False"

\* the value of line 169
Verdict(st) == IF st.files_failed = 0 THEN "True" ELSE "False"

\* lines 163-169
ReturnVerdict ==
  /\ pc = "finish"
  /\ verdict' = Verdict(stats)
  /\ pc' = "returned"
  /\ UNCHANGED <<env, store_calls, csv_files, idx, csv_file, max_retries, attempt, stats, df,
                 df_transformed, processed_files, status, records, stats0, ret, calls,
                 reports, exit_code>>

Running ==
  {"mkdir", "check_raw", "glob", "loop", "for", "extract", "transform", "save", "load",
   "pf_returned", "finish"}

\* a KeyboardInterrupt, which no except clause of run or process_file takes
Interrupt ==
  /\ entry = "run"
  /\ pc \in Running
  /\ pc' = "interrupted"
  /\ UNCHANGED <<env, store_calls, csv_files, idx, csv_file, max_retries, attempt, stats, df,
                 df_transformed, processed_files, status, records, stats0, ret, calls,
                 verdict, reports, exit_code>>

\* mutant: an interruption exits as a failure does
ExitCodeInterruptAsFailure(at, v) ==
  IF at \in {"interrupted", "crashed"} THEN 1
  ELSE IF v = "True" THEN 0 ELSE 1

\* the exit code of lines 172-181
ExitCode(at, v) ==
  IF at = "interrupted" THEN ExitInterrupted
  ELSE IF at = "crashed" THEN 1
  ELSE IF v = "True" THEN 0 ELSE 1

\* lines 172-181
MainExit ==
  /\ entry = "run"
  /\ pc \in {"returned", "crashed", "interrupted"}
  /\ exit_code' = ExitCode(pc, verdict)
  /\ pc' = "exited"
  /\ UNCHANGED <<env, store_calls, csv_files, idx, csv_file, max_retries, attempt, stats, df,
                 df_transformed, processed_files, status, records, stats0, ret, calls,
                 verdict, reports>>

Step ==
  \/ ForAttempt \/ Extract \/ Transform \/ Save \/ Load
  \/ Mkdir \/ CheckRaw \/ Discover \/ CallProcessFile \/ ReturnToLoop
  \/ LogStats \/ ReturnVerdict \/ MainExit

Next == Step

Spec == Init /\ [][Next]_vars

\* the interpreter runs the next statement as long as there is one
FairSpec == Spec /\ WF_vars(Next)

\* the executions that the user may interrupt
MainNext == Step \/ Interrupt

MainSpec == Init /\ [][MainNext]_vars

(***************************************************************************)
(* Direct calls of the stage functions, as the tests make them.            *)
(***************************************************************************)
\* the rows of the tables handed to a direct call: two columns, a cell null,
\* the number 1 or the string "1"
CallRows == { <<a, b>> : a \in {0, 1, 11}, b \in {0, 1, 11} }

\* what a direct call may be handed as its table: a DataFrame, or an object
\* that is none
CallTables ==
  { Table(FileColumns, rows) : rows \in SeqsUpTo(CallRows, MaxRows) } \cup {NoTable}

Strategies == {"", "drop_all", "drop_any", "fill_mean"}

TransformArgs ==
  [fn : {"transform"}, df : CallTables, normalize_cols : BOOLEAN, remove_dups : BOOLEAN,
   handle_missing : Strategies, convert_types : BOOLEAN, fault : TransformFaults]

\* extract_csv(path): the condition of the path and what the file holds
ExtractArgs == [fn : {"extract_csv"}, cond : ExtractConds, table : FileTables]

\* load_df_to_postgres(df, table_name, if_exists) and the store it meets
LoadTables ==
  { Table(FileColumns, rows) : rows \in SeqsUpTo(CallRows, 1) } \cup {NoTable}

LoadArgs ==
  [fn : {"load_df_to_postgres"}, df : LoadTables, table_name_ok : BOOLEAN,
   if_exists : IfExistsPolicies \cup {"other"}, port_ok : BOOLEAN, cond : LoadConds]

\* normalize_columns(df): a table of one column, of any name
ColumnNames == SeqsUpTo(NameChars, MaxNameLen)

\* the names of a table of two columns
ShortNames == SeqsUpTo(NameChars, MaxNameLen - 2)

NormalizeArgs ==
  [fn : {"normalize_columns"},
   df : { Table(<<name>>, <<>>) : name \in ColumnNames }
        \cup { Table(<<n1, n2>>, <<>>) : n1 \in ShortNames, n2 \in ShortNames }]

\* handle_missing_values(df, strategy) and remove_duplicates(df): tables of
\* two columns whose rows are all null, partly null or without null
StepRows == { <<0, 0>>, <<1, 0>>, <<0, 11>>, <<1, 11>> }

StepTables == { Table(FileColumns, rows) : rows \in SeqsUpTo(StepRows, MaxStepRows) }

MissingArgs ==
  [fn : {"handle_missing_values"}, df : StepTables,
   strategy : {"drop_all", "drop_any", "fill_mean", "other"}]

DuplicatesArgs == [fn : {"remove_duplicates"}, df : StepTables]

CallArgs ==
  TransformArgs \cup ExtractArgs \cup LoadArgs \cup NormalizeArgs \cup MissingArgs
    \cup DuplicatesArgs

CallInit ==
  /\ entry = "call"
  /\ pc = "call"
  /\ arg \in CallArgs
  /\ result = NoCall
  /\ raw_exists = FALSE
  /\ raw_entries = {}
  /\ processed_dir = "absent"
  /\ postgres_host = FALSE
  /\ postgres_port_ok = TRUE
  /\ csv_files = <<>>
  /\ idx = 0
  /\ csv_file = NoFile
  /\ max_retries = DefaultMaxRetries
  /\ attempt = 0
  /\ stats = NewStats
  /\ df = NoTable
  /\ df_transformed = NoTable
  /\ processed_files = {}
  /\ status = [n \in RawNames |-> "Pending"]
  /\ records = <<>>
  /\ stats0 = NewStats
  /\ ret = "none"
  /\ calls = 0
  /\ verdict = "none"
  /\ reports = 0
  /\ exit_code = -1
  /\ store_calls = 0

\* what a direct call leaves alone
callvars ==
  <<entry, raw_exists, raw_entries, processed_dir, postgres_host, postgres_port_ok,
    csv_files, idx, csv_file, max_retries, attempt, stats, df, df_transformed,
    processed_files, status, records, stats0, ret, calls, verdict, reports, exit_code,
    store_calls, arg>>

\* transform(df, normalize_cols, remove_dups, handle_missing, convert_types)
TransformCall ==
  /\ pc = "call"
  /\ arg.fn = "transform"
  /\ result' = [fn |-> "transform"] @@
               transform(arg.df, arg.normalize_cols, arg.remove_dups, arg.handle_missing,
                         arg.convert_types, arg.fault)
  /\ pc' = "called"
  /\ UNCHANGED callvars

\* extract_csv(path)
ExtractCall ==
  /\ pc = "call"
  /\ arg.fn = "extract_csv"
  /\ result' = [fn |-> "extract_csv"] @@ extract_csv(arg.cond, arg.table)
  /\ pc' = "called"
  /\ UNCHANGED callvars

\* load_df_to_postgres(df, table_name, if_exists)
LoadCall ==
  /\ pc = "call"
  /\ arg.fn = "load_df_to_postgres"
  /\ result' = [fn |-> "load_df_to_postgres"] @@
               load_df_to_postgres(arg.df, arg.table_name_ok, arg.if_exists, arg.port_ok,
                                   arg.cond)
  /\ pc' = "called"
  /\ UNCHANGED callvars

\* normalize_columns(df)
NormalizeCall ==
  /\ pc = "call"
  /\ arg.fn = "normalize_columns"
  /\ result' = [fn |-> "normalize_columns", exc |-> "none",
                df |-> normalize_columns(arg.df)]
  /\ pc' = "called"
  /\ UNCHANGED callvars

\* handle_missing_values(df, strategy): the pair (df, removed) of lines 87-90
MissingCall ==
  /\ pc = "call"
  /\ arg.fn = "handle_missing_values"
  /\ LET out == handle_missing_values(arg.df, arg.strategy)
     IN result' = [fn |-> "handle_missing_values", exc |-> "none", df |-> out,
                   removed |-> NRows(arg.df) - NRows(out)]
  /\ pc' = "called"
  /\ UNCHANGED callvars

\* remove_duplicates(df): the pair (df, removed) of lines 66-70
DuplicatesCall ==
  /\ pc = "call"
  /\ arg.fn = "remove_duplicates"
  /\ LET out == remove_duplicates(arg.df)
     IN result' = [fn |-> "remove_duplicates", exc |-> "none", df |-> out,
                   removed |-> NRows(arg.df) - NRows(out)]
  /\ pc' = "called"
  /\ UNCHANGED callvars

CallNext ==
  \/ TransformCall \/ ExtractCall \/ LoadCall \/ NormalizeCall \/ MissingCall
  \/ DuplicatesCall

CallSpec == CallInit /\ [][CallNext]_vars

(***************************************************************************)
(* Properties of process_file                                              *)
(***************************************************************************)
Attempts == Len(records)

LastRecord == records[Len(records)]

AllRetryable(n) == \A i \in 1..n : records[i].outcome = "retryable"

FileCounted(processed, failed) ==
  /\ stats.files_processed = stats0.files_processed + processed
  /\ stats.files_failed = stats0.files_failed + failed
  /\ Len(stats.errors) = Len(stats0.errors) + failed
  /\ SubSeq(stats.errors, 1, Len(stats0.errors)) = stats0.errors
  /\ failed = 1 => stats.errors[Len(stats.errors)].file = csv_file

\* C1: when the first k attempts of a file hit a retryable error and attempt
\* k+1 succeeds (k < max_retries), process_file returns True after exactly
\* k+1 attempts, with files_processed one higher and files_failed and the
\* error list as they were
C1_RetryThenSucceed ==
  (Attempts > 0 /\ LastRecord.outcome = "success" /\ AllRetryable(Attempts - 1))
    => /\ pc = "pf_returned"
       /\ ret = "True"
       /\ status[csv_file] = "Succeeded"
       /\ attempt = Attempts
       /\ Attempts <= max_retries
       /\ FileCounted(1, 0)

\* max_retries = 3, two retryable failures, success on the third attempt
C1_Witness ==
  /\ pc = "pf_returned"
  /\ max_retries = 3
  /\ Attempts = 3
  /\ AllRetryable(2)
  /\ LastRecord.outcome = "success"
  /\ ret = "True"

\* C2: when every attempt of a file hits a retryable error, process_file
\* makes exactly max_retries attempts and never more, returns False, raises
\* files_failed by one, appends one error summary for the file and leaves
\* files_processed as it was
C2_RetriesExhausted ==
  /\ Attempts <= max_retries
  /\ (Attempts > 0 /\ AllRetryable(Attempts))
       => IF Attempts < max_retries
          THEN pc \in {"for", "extract", "transform", "save", "load"} /\ ret = "none"
          ELSE /\ pc = "pf_returned"
               /\ ret = "False"
               /\ status[csv_file] = "Failed"
               /\ attempt = max_retries
               /\ FileCounted(0, 1)

\* three attempts, each with a retryable error, the file failed
C2_Witness ==
  /\ pc = "pf_returned"
  /\ max_retries = 3
  /\ Attempts = 3
  /\ AllRetryable(3)
  /\ ret = "False"
  /\ stats.files_failed = stats0.files_failed + 1

\* C3: an exception that is no ExtractionError, TransformError or LoadError,
\* at whatever stage and attempt it reaches process_file, fails the file on
\* that attempt (files_failed one higher, one error summary appended) and no
\* further attempt follows, even when attempts remain
C3_UnrecognizedIsFatal ==
  /\ \A i \in 1..(Attempts - 1) : records[i].exc \in Retryable
  /\ (Attempts > 0 /\ LastRecord.exc \notin (Retryable \cup {"none"}))
       => /\ pc = "pf_returned"
          /\ ret = "False"
          /\ LastRecord.outcome = "fatal"
          /\ status[csv_file] = "Failed"
          /\ attempt = Attempts
          /\ FileCounted(0, 1)
          /\ stats.errors[Len(stats.errors)].unexpected

\* the save of the first of three attempts raises, and the file has failed
C3_Witness ==
  /\ pc = "pf_returned"
  /\ max_retries = 3
  /\ Attempts = 1
  /\ LastRecord.stage = "save"
  /\ LastRecord.outcome = "fatal"
  /\ status[csv_file] = "Failed"

\* C4 as stated: a TypeMismatch (transform is handed an object that is no
\* DataFrame) is raised before any step runs and is fatal to the file: the
\* runner fails the file on that attempt and does not retry
C4_TypeMismatchFatal ==
  (pc = "called" /\ result.fn = "transform" /\ ~arg.df.frame)
    => /\ result.exc # "none"
       /\ result.steps = <<>>
       /\ \A att \in 1..DefaultMaxRetries :
            Handler(result.exc, att, DefaultMaxRetries) = "fatal"

\* C4 amended: a TypeMismatch is raised before any step runs, as a
\* TransformError; the runner handles it as every TransformError: it retries
\* while attempts remain and fails the file on the last attempt
C4_TypeMismatchRetried ==
  (pc = "called" /\ result.fn = "transform" /\ ~arg.df.frame)
    => /\ result.exc = "TransformError"
       /\ result.steps = <<>>
       /\ result.df = NoTable
       /\ \A max \in 1..MaxRetriesArg :
            \A att \in 1..max :
              Handler(result.exc, att, max) = IF att < max THEN "retry" ELSE "fail"

\* transform was called with every step enabled on an object that is no
\* DataFrame
C4_Witness ==
  /\ pc = "called"
  /\ arg.fn = "transform"
  /\ ~arg.df.frame
  /\ arg.normalize_cols /\ arg.remove_dups /\ arg.convert_types
  /\ arg.handle_missing = "drop_all"
  /\ arg.fault = "none"
  /\ result.exc = "TransformError"

\* C5: a failure of the load stage, of any kind, never fails the file: after
\* extraction, transformation and the save succeeded, the file ends Succeeded
\* with files_processed one higher and files_failed, the error list and
\* rows_loaded as they were, and without a retry
C5_LoadFailureSwallowed ==
  (Attempts > 0 /\ LastRecord.stage = "load" /\ LastRecord.exc # "none")
    => /\ pc = "pf_returned"
       /\ ret = "True"
       /\ LastRecord.outcome = "success"
       /\ status[csv_file] = "Succeeded"
       /\ FileCounted(1, 0)
       /\ stats.rows_loaded = stats0.rows_loaded

(***************************************************************************)
(* Properties of run                                                       *)
(***************************************************************************)
Discovered == { csv_files[i] : i \in 1..Len(csv_files) }

FailedFiles == { f \in Discovered : status[f] = "Failed" }

AllTerminal == \A f \in Discovered : status[f] \in Terminal

FailuresRecorded ==
  /\ stats.files_failed = Cardinality(FailedFiles)
  /\ Len(stats.errors) = Cardinality(FailedFiles)
  /\ \A f \in FailedFiles : \E i \in 1..Len(stats.errors) : stats.errors[i].file = f

\* C6: a run whose raw directory exists drives every discovered file to
\* Succeeded or Failed, whatever became of the files before it, and has every
\* failure in the aggregate when it ends
C6_EveryFileReachesTerminal ==
  (entry = "run" /\ pc = "loop")
    ~> (pc = "returned" /\ raw_exists /\ AllTerminal /\ FailuresRecorded)

\* the first file failed and the second was processed all the same
C6_Witness ==
  /\ pc = "returned"
  /\ Len(csv_files) = 2
  /\ status[csv_files[1]] = "Failed"
  /\ status[csv_files[2]] = "Succeeded"
  /\ stats.files_failed = 1

\* C7 as stated: run() returns success exactly when no discovered file ended
\* Failed (files_failed = 0)
C7_SuccessIffNoFailure ==
  pc = "returned" => (verdict = "True" <=> (FailedFiles = {} /\ stats.files_failed = 0))

\* C7 amended: when the raw directory exists, run() returns success exactly
\* when no discovered file ended Failed (files_failed = 0); a run without
\* input files returns success, and a file that yields zero rows and is
\* saved ends Succeeded
C7_SuccessIffNoFailureWhenRawExists ==
  /\ (pc = "returned" /\ raw_exists)
       => /\ verdict = "True" <=> (FailedFiles = {} /\ stats.files_failed = 0)
          /\ csv_files = <<>> => verdict = "True"
  /\ (Attempts > 0 /\ LastRecord.stage = "load"
        /\ stats.rows_transformed = stats0.rows_transformed)
       => /\ LastRecord.outcome = "success"
          /\ status[csv_file] = "Succeeded"
          /\ FileCounted(1, 0)

\* a run over one file that yielded zero rows has returned success
C7_Witness ==
  /\ pc = "returned"
  /\ raw_exists
  /\ Len(csv_files) = 1
  /\ stats.rows_extracted = 0
  /\ stats.files_processed = 1
  /\ verdict = "True"

\* C8: when the raw directory does not exist, run() returns False, and
\* process_file is never called: every counter of the aggregate stays zero
C8_MissingRawDirectory ==
  (entry = "run" /\ ~raw_exists)
    => /\ calls = 0
       /\ stats = NewStats
       /\ \A n \in RawNames : status[n] = "Pending"
       /\ pc \in {"mkdir", "check_raw", "crashed", "returned", "exited"}
       /\ pc = "returned" => verdict = "False"
       /\ verdict # "True"

\* the run has returned without a raw directory
C8_Witness ==
  /\ entry = "run"
  /\ ~raw_exists
  /\ pc = "returned"
  /\ verdict = "False"

\* C9 as stated: every run that returns a verdict has logged the final
\* report exactly once
C9_ReportOnEveryReturn == pc = "returned" => reports = 1

\* C9 amended: a run that discovered at least one file logs the final report
\* exactly once, after every discovered file is Succeeded or Failed and
\* before the verdict is returned; a run that returns early (no raw
\* directory, or no input file) logs no report
C9_ReportWhenFilesDiscovered ==
  /\ reports <= 1
  /\ reports = 1 => (csv_files # <<>> /\ AllTerminal /\ pc \in {"finish", "returned", "exited"})
  /\ (pc \in {"finish", "returned", "exited"} /\ csv_files # <<>>) => reports = 1
  /\ (verdict # "none" /\ csv_files # <<>>) => reports = 1
  /\ (verdict # "none" /\ csv_files = <<>>) => reports = 0

\* a run over two files has returned, with one report
C9_Witness ==
  /\ pc = "returned"
  /\ Len(csv_files) = 2
  /\ reports = 1

\* C10: the files are processed one after the other in ascending order of
\* their names: a file is started only when every file with a smaller name is
\* Succeeded or Failed, at most one file is started and not yet terminal, and
\* the error summaries are in that order
C10_SequentialAscending ==
  entry = "run" =>
    /\ \A i, j \in 1..Len(csv_files) : i < j => LexLess(csv_files[i], csv_files[j])
    /\ (pc \in (Running \ {"mkdir", "check_raw", "glob"}) \/ verdict # "none") /\ raw_exists
         => Discovered = Glob(raw_entries)
    /\ \A f \in RawNames : status[f] # "Pending" => f \in Discovered
    /\ \A f, g \in Discovered :
         (LexLess(g, f) /\ status[f] # "Pending") => status[g] \in Terminal
    /\ Cardinality({ f \in RawNames : status[f] \notin (Terminal \cup {"Pending"}) }) <= 1
    /\ \A i, j \in 1..Len(stats.errors) :
         i < j => LexLess(stats.errors[i].file, stats.errors[j].file)

\* the second of two files is being extracted, the first has failed; the
\* name of the first is longer and sorts first by its "-"
C10_Witness ==
  /\ entry = "run"
  /\ csv_files = << <<"a", "-", "b", ".", "c", "s", "v">>, <<"a", ".", "c", "s", "v">> >>
  /\ status[csv_files[1]] = "Failed"
  /\ status[csv_files[2]] = "Extracting"
  /\ Len(stats.errors) = 1

\* C11: with no POSTGRES_HOST the load stage is off: load_df_to_postgres is
\* never called and rows_loaded stays as it was, while a file that succeeds
\* has still been written under PROCESSED_DIR
C11_NoHostNoLoad ==
  ~postgres_host =>
    /\ store_calls = 0
    /\ stats.rows_loaded = 0
    /\ \A f \in RawNames : status[f] = "Succeeded" => f \in processed_files

\* a file with rows was extracted, transformed, saved and has succeeded with
\* no host configured
C11_Witness ==
  /\ ~postgres_host
  /\ pc = "pf_returned"
  /\ status[csv_file] = "Succeeded"
  /\ csv_file \in processed_files
  /\ stats.rows_extracted > 0
  /\ stats.rows_transformed > 0
  /\ stats.rows_loaded = 0

\* C12: the processed file is written before the optional store write: a
\* file is Succeeded only when it has been written under PROCESSED_DIR with
\* its own name; it enters the load stage only from the save stage and with
\* the file written; load_df_to_postgres is called only in the load stage;
\* and a file succeeds only out of the load stage, host or no host
C12_SaveBeforeLoad ==
  /\ [](\A f \in RawNames : status[f] \in {"Loading", "Succeeded"} => f \in processed_files)
  /\ [][/\ store_calls' # store_calls
            => pc = "load" /\ status[csv_file] = "Loading" /\ csv_file \in processed_files
         /\ \A f \in RawNames :
              /\ (status'[f] = "Loading" /\ status[f] # "Loading")
                   => f = csv_file /\ status[f] = "Saving" /\ f \in processed_files'
              /\ (status'[f] = "Succeeded" /\ status[f] # "Succeeded")
                   => f = csv_file /\ status[f] = "Loading"]_vars

\* a file has succeeded although the store could not be reached: the load
\* failure was skipped after the processed file had been written
C12_Witness ==
  /\ postgres_host
  /\ pc = "pf_returned"
  /\ status[csv_file] = "Succeeded"
  /\ LastRecord.exc = "LoadError"
  /\ store_calls > 0
  /\ csv_file \in processed_files

\* C13: the process exits with 0 exactly when run() returned True, with 1
\* when run() returned False (as it does when a file failed) or raised, and
\* with 130 when the user interrupted it; it exits with no other code
C13_ExitCodes ==
  /\ [](/\ exit_code \in {-1, 0, 1, ExitInterrupted}
        /\ (pc = "exited") = (exit_code # -1)
        /\ (exit_code = 0) = (pc = "exited" /\ verdict = "True")
        /\ (pc = "exited" /\ stats.files_failed > 0) => exit_code \in {1, ExitInterrupted}
        /\ (pc = "exited" /\ verdict = "False") => exit_code = 1)
  /\ [][pc' = "exited" =>
          /\ pc = "interrupted" => exit_code' = ExitInterrupted
          /\ pc = "crashed" => exit_code' = 1
          /\ pc = "returned" => exit_code' = (IF verdict = "True" THEN 0 ELSE 1)]_vars

\* the user interrupted the run after its first file had been processed
C13_Witness ==
  /\ pc = "exited"
  /\ exit_code = ExitInterrupted
  /\ stats.files_processed = 1
  /\ Len(csv_files) = 2

\* C14: extract_csv on a path that does not exist raises FileNotFoundError
\* and returns no table
C14_MissingFileNotFoundError ==
  (pc = "called" /\ result.fn = "extract_csv" /\ arg.cond = "not_found")
    => /\ result.exc = "FileNotFoundError"
       /\ result.df = NoTable

\* C15: load_df_to_postgres on a table without rows, with a table name and
\* any of the policies fail, replace and append, returns 0: it raises
\* nothing, makes no engine and no connection and writes nothing, whatever
\* the state of the store and of the connection settings
C15_EmptyLoadIsNoOp ==
  (/\ pc = "called"
   /\ result.fn = "load_df_to_postgres"
   /\ arg.df.frame
   /\ NRows(arg.df) = 0
   /\ arg.table_name_ok
   /\ arg.if_exists \in IfExistsPolicies)
    => /\ result.exc = "none"
       /\ result.loaded = 0
       /\ ~result.engine
       /\ ~result.wrote

\* a table without rows was loaded with the policy fail while the store
\* refused connections and POSTGRES_PORT was no number
C15_Witness ==
  /\ pc = "called"
  /\ arg.fn = "load_df_to_postgres"
  /\ arg.df.frame
  /\ NRows(arg.df) = 0
  /\ arg.table_name_ok
  /\ arg.if_exists = "fail"
  /\ arg.cond = "connect_error"
  /\ ~arg.port_ok
  /\ result.exc = "none"

\* C16: every name that normalize_columns produces holds only lower-case
\* alphanumeric characters and underscores, and neither starts nor ends
\* with an underscore
C16_NormalizedNamesLowerSnake ==
  (pc = "called" /\ result.fn = "normalize_columns")
    => \A k \in 1..Len(result.df.columns) :
         LET name == result.df.columns[k]
         IN /\ \A i \in 1..Len(name) :
                 \/ name[i] = "_"
                 \/ IsAlnum(name[i]) /\ ~IsUpper(name[i])
            /\ name # <<>> => name[1] # "_" /\ name[Len(name)] # "_"

\* C17: normalize_columns is idempotent: applied to its own result it
\* changes no name
C17_NormalizeIdempotent ==
  (pc = "called" /\ result.fn = "normalize_columns")
    => /\ normalize_columns(result.df) = result.df
       /\ \A k \in 1..Len(arg.df.columns) :
            NormalizeName(NormalizeName(arg.df.columns[k])) = NormalizeName(arg.df.columns[k])

\* the name "!_A" was normalized to "a"
C17_Witness ==
  /\ pc = "called"
  /\ arg.fn = "normalize_columns"
  /\ arg.df.columns = << <<"!", "_", "A">> >>
  /\ result.df.columns = << <<"a">> >>

\* C18: handle_missing_values with drop_all removes exactly the rows whose
\* cells are all null: the result is the rows with a non-null cell, each
\* once and in their order, and removed is the number of all-null rows
C18_DropAllRemovesAllNullRows ==
  (pc = "called" /\ result.fn = "handle_missing_values" /\ arg.strategy = "drop_all")
    => LET in == arg.df.rows
           out == result.df.rows
           kept == { i \in 1..Len(in) : \E j \in 1..Len(in[i]) : in[i][j] # 0 }
       IN /\ result.exc = "none"
          /\ result.df.columns = arg.df.columns
          /\ Len(out) = Cardinality(kept)
          /\ result.removed = Len(in) - Cardinality(kept)
          /\ \E f \in [1..Len(out) -> kept] :
               /\ \A a, b \in 1..Len(out) : a < b => f[a] < f[b]
               /\ \A a \in 1..Len(out) : out[a] = in[f[a]]
          /\ (\A i \in 1..Len(in) : i \in kept) => out = in

\* an all-null row between two rows that are partly null was dropped
C18_Witness ==
  /\ pc = "called"
  /\ arg.fn = "handle_missing_values"
  /\ arg.strategy = "drop_all"
  /\ arg.df.rows = << <<1, 0>>, <<0, 0>>, <<0, 11>> >>
  /\ result.df.rows = << <<1, 0>>, <<0, 11>> >>
  /\ result.removed = 1

\* C19: remove_duplicates keeps the first of equal rows and the order of
\* the rows it keeps, and is idempotent: applied to its own result it
\* removes nothing
C19_DuplicatesKeepFirstIdempotent ==
  (pc = "called" /\ result.fn = "remove_duplicates")
    => LET in == arg.df.rows
           out == result.df.rows
           first == { i \in 1..Len(in) : \A h \in 1..(i - 1) : in[h] # in[i] }
       IN /\ result.exc = "none"
          /\ result.df.columns = arg.df.columns
          /\ Len(out) = Cardinality(first)
          /\ result.removed = Len(in) - Len(out)
          /\ \E f \in [1..Len(out) -> first] :
               /\ \A a, b \in 1..Len(out) : a < b => f[a] < f[b]
               /\ \A a \in 1..Len(out) : out[a] = in[f[a]]
          /\ remove_duplicates(result.df) = result.df
          /\ NRows(remove_duplicates(result.df)) = NRows(result.df)

\* the third row repeated the first and was removed
C19_Witness ==
  /\ pc = "called"
  /\ arg.fn = "remove_duplicates"
  /\ arg.df.rows = << <<1, 0>>, <<0, 11>>, <<1, 0>> >>
  /\ result.df.rows = << <<1, 0>>, <<0, 11>> >>
  /\ result.removed = 1

\* the positions inside the try block of process_file, in their order
Stages == <<"extract", "transform", "save", "load">>

StageStatus == <<"Extracting", "Transforming", "Saving", "Loading">>

\* C20: the state machine of a file.  Within an attempt the stages run in
\* the order extract, transform, save, load, each only after the one
\* before it succeeded in the same attempt; a retry starts at extract
\* again, in a new attempt; Succeeded and Failed are final: no stage runs
\* and no counter changes for the file afterwards
C20_FileStateMachine ==
  /\ [](entry # "call" =>
         /\ \A k \in 1..Len(Stages) :
              pc = Stages[k] =>
                /\ status[csv_file] = StageStatus[k]
                /\ Attempts = attempt - 1
                /\ AllRetryable(attempt - 1)
                /\ 1 <= attempt /\ attempt <= max_retries
         /\ pc \in {"transform", "save", "load"} => df.frame
         /\ pc \in {"save", "load"} => df_transformed.frame
         /\ pc = "load" => csv_file \in processed_files
         /\ pc = "for" => status[csv_file] \notin Terminal
         /\ \A f \in RawNames :
              status[f] \in Terminal =>
                ~(f = csv_file /\ pc \in {"for", "extract", "transform", "save", "load"}))
  /\ [][/\ \A f \in RawNames :
             (status'[f] # status[f]) =>
               (/\ f = csv_file
                /\ status[f] \notin Terminal
                /\ (\/ (\E k \in 1..(Len(Stages) - 1) :
                          /\ status[f] = StageStatus[k]
                          /\ status'[f] = StageStatus[k + 1]
                          /\ attempt' = attempt)
                    \/ (status'[f] = "Extracting" /\ pc = "for" /\ attempt' = attempt + 1)
                    \/ (status[f] = "Loading" /\ status'[f] = "Succeeded")
                    \/ (/\ status[f] \in { StageStatus[k] : k \in 1..Len(Stages) }
                        /\ status'[f] = "Failed")))
        /\ (attempt' > attempt) => (pc' = "extract" /\ attempt' = attempt + 1)
        /\ (pc' = "extract") => (pc = "for")
        /\ (stats' # stats \/ processed_files' # processed_files
                            \/ store_calls' # store_calls)
             => (/\ status[csv_file] \notin Terminal
                 /\ pc \in {"extract", "transform", "save", "load"})]_vars

\* the second attempt of a file has reached the transform stage after the
\* first attempt failed in it
C20_Witness ==
  /\ entry = "run"
  /\ pc = "transform"
  /\ attempt = 2
  /\ Attempts = 1
  /\ records[1].stage = "transform"
  /\ status[csv_file] = "Transforming"

\* C21: transform applies its enabled steps in the order normalize_columns,
\* handle_missing_values, remove_duplicates, convert_dtypes: its result is
\* the composition of the enabled steps in that order, each on the result
\* of the one before, and a disabled step changes nothing
C21_TransformStepOrder ==
  (/\ pc = "called"
   /\ result.fn = "transform"
   /\ arg.df.frame
   /\ arg.fault = "none")
    => LET d1 == IF arg.normalize_cols THEN normalize_columns(arg.df) ELSE arg.df
           d2 == IF arg.handle_missing # ""
                 THEN handle_missing_values(d1, arg.handle_missing) ELSE d1
           d3 == IF arg.remove_dups THEN remove_duplicates(d2) ELSE d2
           d4 == IF arg.convert_types THEN convert_dtypes(d3) ELSE d3
       IN /\ result.exc = "none"
          /\ result.df = d4
          /\ Len(result.steps) =
               (IF arg.normalize_cols THEN 1 ELSE 0) + (IF arg.handle_missing # "" THEN 1 ELSE 0)
               + (IF arg.remove_dups THEN 1 ELSE 0) + (IF arg.convert_types THEN 1 ELSE 0)
          /\ \A i, j \in 1..Len(result.steps) :
               i < j =>
                 \E a, b \in 1..4 :
                   /\ a < b
                   /\ result.steps[i] = <<"normalize_columns", "handle_missing_values",
                                           "remove_duplicates", "convert_dtypes">>[a]
                   /\ result.steps[j] = <<"normalize_columns", "handle_missing_values",
                                           "remove_duplicates", "convert_dtypes">>[b]

\* every step enabled with fill_mean on two rows that are equal only once
\* the missing value is filled: the filling ran before the duplicate removal
C21_Witness ==
  /\ pc = "called"
  /\ arg.fn = "transform"
  /\ arg.df.frame
  /\ arg.fault = "none"
  /\ arg.normalize_cols /\ arg.remove_dups /\ arg.convert_types
  /\ arg.handle_missing = "fill_mean"
  /\ arg.df.rows = << <<1, 0>>, <<0, 0>> >>
  /\ result.df.rows = << <<1, 0>> >>

\* C22 as stated: every name is lower-cased, trimmed of whitespace, has
\* every whitespace character and every hyphen inside it replaced with an
\* underscore, loses every character that is neither alphanumeric nor an
\* underscore, and is trimmed of underscores; names that collide stay
C22_NormalizeReplacesWhitespace ==
  (pc = "called" /\ result.fn = "normalize_columns")
    => /\ Len(result.df.columns) = Len(arg.df.columns)
       /\ \A k \in 1..Len(arg.df.columns) :
            LET name == arg.df.columns[k]
                lowered == [i \in 1..Len(name) |-> Lower(name[i])]
                trimmed == Strip(lowered, Whitespace)
                replaced == [i \in 1..Len(trimmed) |->
                               IF trimmed[i] \in Whitespace \cup {"-"} THEN "_"
                               ELSE trimmed[i]]
                kept == SelectSeq(replaced, KeepAlnumUnderscore)
            IN result.df.columns[k] = Strip(kept, {"_"})

\* C22 amended: every name is lower-cased, trimmed of whitespace, has every
\* space and every hyphen inside it replaced with an underscore, loses every
\* character that is neither alphanumeric nor an underscore (other
\* whitespace inside the name among them), and is trimmed of underscores;
\* names that collide stay
C22_NormalizeReplacesSpaces ==
  (pc = "called" /\ result.fn = "normalize_columns")
    => /\ Len(result.df.columns) = Len(arg.df.columns)
       /\ \A k \in 1..Len(arg.df.columns) :
            LET name == arg.df.columns[k]
                lowered == [i \in 1..Len(name) |-> Lower(name[i])]
                trimmed == Strip(lowered, Whitespace)
                replaced == [i \in 1..Len(trimmed) |->
                               IF trimmed[i] \in {" ", "-"} THEN "_" ELSE trimmed[i]]
                kept == SelectSeq(replaced, KeepAlnumUnderscore)
            IN result.df.columns[k] = Strip(kept, {"_"})

\* the names "A" and "a" of a table of two columns both became "a"
C22_Witness ==
  /\ pc = "called"
  /\ arg.fn = "normalize_columns"
  /\ arg.df.columns = << <<"A">>, <<"a">> >>
  /\ result.df.columns = << <<"a">>, <<"a">> >>

\* C23 as stated: run() looks for RAW_DIR before it makes PROCESSED_DIR, so
\* a run that finds no RAW_DIR does not make PROCESSED_DIR
C23_RawCheckedBeforeMkdir ==
  [][(entry = "run" /\ ~raw_exists) => processed_dir' = processed_dir]_vars

\* C23 amended: run() makes PROCESSED_DIR before it looks for RAW_DIR: a run
\* that returns for want of RAW_DIR has made PROCESSED_DIR and has done
\* nothing else: no file is discovered or processed, nothing is written
\* and no report is logged
C23_MkdirBeforeRawCheck ==
  /\ (entry = "run" /\ pc \in {"check_raw", "glob"}) => processed_dir = "present"
  /\ (entry = "run" /\ ~raw_exists /\ verdict # "none")
       => /\ verdict = "False"
          /\ processed_dir = "present"
          /\ csv_files = <<>>
          /\ calls = 0
          /\ stats = NewStats
          /\ processed_files = {}
          /\ reports = 0

\* the run has exited with 1 for want of RAW_DIR, PROCESSED_DIR made
C23_Witness ==
  /\ entry = "run"
  /\ ~raw_exists
  /\ pc = "exited"
  /\ exit_code = 1
  /\ verdict = "False"
  /\ processed_dir = "present"

\* C24: a call of process_file, whatever max_retries >= 0, changes exactly
\* one of files_processed and files_failed, by 1, and returns True exactly
\* when it was files_processed; so no False return is left uncounted
C24_EveryCallCounted ==
  (entry # "call" /\ pc = "pf_returned")
    => \/ ret = "True" /\ FileCounted(1, 0)
       \/ ret = "False" /\ FileCounted(0, 1)

\* C25: the error summaries are as many as files_failed: one for each file
\* that is Failed, naming it, and none for a file that is not
C25_OneSummaryPerFailedFile ==
  entry # "call" =>
    /\ Len(stats.errors) = stats.files_failed
    /\ \A f \in RawNames :
         Cardinality({ i \in 1..Len(stats.errors) : stats.errors[i].file = f })
           = IF status[f] = "Failed" THEN 1 ELSE 0
    /\ pc \in {"for", "extract", "transform", "save", "load"}
         => Len(stats.errors) = Len(stats0.errors)

\* the second file of a run is in its second attempt after a retryable
\* failure, the first file has failed: one summary, for the first file
C25_Witness ==
  /\ entry = "run"
  /\ idx = 2
  /\ pc = "extract"
  /\ attempt = 2
  /\ status[csv_files[1]] = "Failed"
  /\ Len(stats.errors) = 1
  /\ stats.errors[1].file = csv_files[1]

\* C26: a file adds to the row counters at most once: a call of
\* process_file that returns False has added nothing to rows_extracted,
\* rows_transformed and rows_loaded, and one that returns True has added
\* the rows of one extraction and of one transformation
C26_RowsCountedOncePerFile ==
  (entry # "call" /\ pc = "pf_returned")
    => LET extracted == stats.rows_extracted - stats0.rows_extracted
           transformed == stats.rows_transformed - stats0.rows_transformed
           loaded == stats.rows_loaded - stats0.rows_loaded
       IN IF ret = "True"
          THEN /\ \E t \in FileTables : extracted = NRows(t)
               /\ transformed <= extracted
               /\ loaded <= transformed
          ELSE extracted = 0 /\ transformed = 0 /\ loaded = 0

\* C27: on every path of load_df_to_postgres that makes an engine the
\* engine is disposed when the call returns or raises, and what such a path
\* raises is a LoadError
C27_EngineDisposed ==
  (pc = "called" /\ result.fn = "load_df_to_postgres")
    => /\ result.engine => result.disposed
       /\ result.engine => result.exc \in {"none", "LoadError"}
       /\ (result.engine /\ arg.cond # "ok") => result.exc = "LoadError" /\ ~result.wrote
       /\ result.disposed => result.engine
       /\ result.wrote => (result.exc = "none" /\ result.loaded = NRows(arg.df))

\* the store refused the rows during the write: LoadError, engine disposed
C27_Witness ==
  /\ pc = "called"
  /\ arg.fn = "load_df_to_postgres"
  /\ arg.cond = "write_db_error"
  /\ result.engine
  /\ result.disposed
  /\ result.exc = "LoadError"

====
